---- MODULE Spec2Model ----
(***************************************************************************)
(* A state-machine model of CPU_Alert_Tracker:                             *)
(*   src/pid_monitor.py  the top-N monitor (get_top_processes, the         *)
(*                       ProcessMonitorApp window and its 5 s timer, the   *)
(*                       Terminate button, the CPUGraph window)            *)
(*   src/ids_monitor.py  the single-PID monitor (monitor_process_activity, *)
(*                       MonitorThread, start_monitoring)                  *)
(* psutil and Qt are the environment: every query of a process has its     *)
(* outcome (a value, NoSuchProcess, AccessDenied, another error) chosen    *)
(* nondeterministically when the query is made.                            *)
(***************************************************************************)
EXTENDS Integers, Sequences, FiniteSets, TLC

\* ------------------------------------------------------------ configuration
CPU_ALERT_THRESHOLD == 80
TOP_N == 3
IGNORED_PIDS == {0, 4}
IGNORED_NAMES == {"System Idle Process", "System"}

\* ------------------------------------------------------------------ bounds
\* Largest n that get_top_processes is called with directly.
MaxN == 3

\* The pids a process may have, the names it may run under, and the values a
\* delta-based cpu_percent read may return (percent, around the threshold).
Pids == {4, 10, 20, 30}
GuiPids == {10, 20}
Names == {"System", "app.exe"}
NamesOf(p) == IF p \in {4, 10} THEN Names ELSE {"app.exe"}
CpuValues == {50, 80, 81}
GuiCpuValues == {80, 81}
NoName == ""

\* The outcome of a per-process query that raised (any exception).
Raised == -1
\* cpu_percent(interval=None) on a Process object without a baseline.
FirstRead == 0

VARIABLES
  alive,       \* pids of the live processes
  pname,       \* pid -> name of the live process (NoName when dead)
  baseline,    \* pids whose cached psutil.Process holds a CPU-times baseline
  primed,      \* pids primed by the current pass (line 18) and alive since
  stack,       \* the GUI thread's call stack, innermost frame last
  argn,        \* get_top_processes: the parameter n of the current call
  proc_list,   \* get_top_processes: proc_list as built by lines 22-30
  procs,       \* the value get_top_processes last returned (line 32)
  readkind,    \* pid -> how the value in procs was read: "second" (primed in
               \*   this pass), "carry" (baseline of an earlier pass), "first"
  timerActive, \* ProcessMonitorApp.timer.isActive()
  dragPending, \* ProcessMonitorApp._drag_resize_timer is pending
  table,       \* the rows of ProcessMonitorApp.table
  trayAlert,   \* the tray icon is the alert icon (tooltip "... - ALERT")
  lastPass,    \* how the last refresh_top_processes ended: "completed", "aborted"
  termTarget,  \* terminate_process: {pid} while a request is in progress
  termGone,    \* the process of the request exited since psutil.Process(pid)
  signalled,   \* pids that proc.terminate() of the request sent a signal to
  lastWait,    \* how proc.wait(timeout=3) of the request ended
  gState,      \* CPUGraph: "none", "open", "closed", or "exit" (program died)
  gTimer,      \* CPUGraph.timer.isActive()
  gDrag,       \* CPUGraph._drag_resize_timer is pending
  gLast,       \* CPUGraph: how the last refresh ended: "ok", "failed", "escaped"
  gclock,      \* CPUGraph: seconds since start_time
  cpu_data,    \* CPUGraph.cpu_data
  time_data,   \* CPUGraph.time_data
  thrPc,       \* MonitorThread: "none", "head" (line 61), "body" (lines 62-63),
               \*   "sleep" (line 64), "done" (run returned)
  thrPid,      \* MonitorThread.pid, as a set ({} before the first thread)
  thrRunning,  \* MonitorThread.running
  thrLast,     \* MonitorThread: the last monitor_process_activity "ok"/"failed"
  queue,       \* update_signal emissions queued for the GUI thread
  idsPc,       \* ids GUI thread: "idle" (app.exec_), "wait" in monitor_thread.wait(),
               \*   "box" in the error box of line 167
  prevThr,     \* the MonitorThread that line 163 replaced, as it was then
  shown,       \* the pid whose sample text_area shows, as a set
  newPid,      \* start_monitoring: the pid being started, as a set
  text_area,   \* the content of text_area
  status_label,\* the text of status_label
  monObs,      \* a direct monitor_process_activity call: what the queries answer
  monInfo,     \* a direct monitor_process_activity call: {the list it returned}
  config       \* the module globals of pid_monitor.py, lines 9-12

osVars == <<alive, pname, baseline, primed>>
passVars == <<argn, proc_list, procs, readkind>>
winVars == <<timerActive, dragPending, table, trayAlert, lastPass>>
termVars == <<termTarget, termGone, signalled, lastWait>>
graphVars == <<gState, gTimer, gDrag, gLast, gclock, cpu_data, time_data>>
idsVars == <<thrPc, thrPid, thrRunning, thrLast, queue, idsPc, newPid, text_area, status_label,
             monObs, monInfo, prevThr, shown>>
NoThread == [pc |-> "none", running |-> FALSE, pid |-> {}]
NoObs == [fail |-> "none", err |-> "nsp", text |-> "", cpu |-> 0, files |-> 0,
          children |-> 0, badchild |-> 1]
vars == <<alive, pname, baseline, primed, stack, argn, proc_list, procs, readkind,
          timerActive, dragPending, table, trayAlert, lastPass,
          termTarget, termGone, signalled, lastWait,
          gState, gTimer, gDrag, gLast, gclock, cpu_data, time_data,
          thrPc, thrPid, thrRunning, thrLast, queue, idsPc, newPid, text_area,
          status_label, monObs, monInfo, config, prevThr, shown>>

\* Lines 9-12: the values the module globals are bound to at import.
Thresholds ==
  [CPU_ALERT_THRESHOLD |-> CPU_ALERT_THRESHOLD, TOP_N |-> TOP_N,
   IGNORED_PIDS |-> IGNORED_PIDS, IGNORED_NAMES |-> IGNORED_NAMES]

\* ------------------------------------------------------------------ helpers
Min(a, b) == IF a < b THEN a ELSE b
Top == stack[Len(stack)]
Pop(s) == SubSeq(s, 1, Len(s) - 1)
Range(s) == {s[i] : i \in DOMAIN s}

\* psutil.process_iter yields the processes by ascending pid.
RECURSIVE process_iter(_)
process_iter(S) ==
  IF S = {} THEN <<>>
  ELSE LET m == CHOOSE x \in S : \A y \in S : x <= y
       IN  <<m>> \o process_iter(S \ {m})

\* The parts of the state a specification does not run.
GraphIdle ==
  /\ gState = "none" /\ gTimer = FALSE /\ gDrag = FALSE /\ gLast = "none"
  /\ gclock = 0 /\ cpu_data = <<>> /\ time_data = <<>>
IdsIdle ==
  /\ thrPc = "none" /\ thrPid = {} /\ thrRunning = FALSE /\ thrLast = "none"
  /\ queue = <<>> /\ idsPc = "idle" /\ newPid = {} /\ text_area = <<>>
  /\ status_label = "Waiting for Process ID..."
  /\ monObs = NoObs /\ monInfo = {}
  /\ prevThr = NoThread /\ shown = {}

\* ------------------------------------------------------- get_top_processes
\* Line 25: the ignore lists.
IgnoredAlt(p) == p \in config.IGNORED_PIDS
Ignored(p) == p \in config.IGNORED_PIDS \/ pname[p] \in config.IGNORED_NAMES

\* Line 27: the first cpu_percent call on a Process object returns 0.0; a later
\* one returns the usage since the previous call (v, given by the environment).
ReadValue(p, v) == IF p \in baseline THEN v ELSE FirstRead

\* What the environment may answer to the reads of line 25-28 for process p.
ReadChoices(p, V) == IF p \in baseline THEN V \cup {Raised} ELSE {FirstRead, Raised}

\* Lines 22-30: the samples of the processes that are not ignored and whose
\* queries did not raise, in enumeration order. rd[p] is the outcome for p.
RECURSIVE Collect(_, _)
Collect(order, rd) ==
  IF order = <<>> THEN <<>>
  ELSE LET p == Head(order)
           rest == Collect(Tail(order), rd)
       IN  IF Ignored(p) \/ rd[p] = Raised THEN rest
           ELSE <<[cpu |-> ReadValue(p, rd[p]), pid |-> p, name |-> pname[p]]>> \o rest

\* Python's tuple order on (cpu, pid, name). Pids are unique in one enumeration,
\* so the comparison never reaches the name.
TupleLTByCpu(a, b) == a.cpu < b.cpu
TupleLTAlt(a, b) == a.cpu < b.cpu \/ (a.cpu = b.cpu /\ a.pid > b.pid)
TupleLT(a, b) == a.cpu < b.cpu \/ (a.cpu = b.cpu /\ a.pid < b.pid)

\* Line 31: proc_list.sort(reverse=True), as an insertion sort into descending
\* order.
RECURSIVE InsertDesc(_, _)
InsertDesc(x, s) ==
  IF s = <<>> THEN <<x>>
  ELSE IF TupleLT(Head(s), x) THEN <<x>> \o s
  ELSE <<Head(s)>> \o InsertDesc(x, Tail(s))

RECURSIVE SortReverse(_)
SortReverse(s) == IF s = <<>> THEN <<>> ELSE InsertDesc(Head(s), SortReverse(Tail(s)))

\* Line 32: proc_list[:k] for k >= 0.
SliceAlt(s, k) == SubSeq(s, 1, Min(k + 1, Len(s)))
Slice(s, k) == SubSeq(s, 1, Min(k, Len(s)))

\* How the value reported for p was obtained.
NoKinds == [p \in Pids |-> "none"]
KindOf(p) ==
  IF p \in primed THEN "second" ELSE IF p \in baseline THEN "carry" ELSE "first"

\* Lines 16-20: the priming loop. ok is the set of processes whose cpu_percent
\* call did not raise. Then line 21 sleeps.
Prime ==
  /\ Top = "prime"
  /\ UNCHANGED <<graphVars, idsVars, config>>
  /\ \E ok \in SUBSET alive :
       /\ baseline' = baseline \cup ok
       /\ primed' = ok
  /\ stack' = Pop(stack) \o <<"sleep">>
  /\ UNCHANGED <<alive, pname, argn, proc_list, procs, readkind>>
  /\ UNCHANGED <<winVars, termVars>>

\* Lines 22-32: after the sleep, the read loop, the sort and the slice; the
\* call returns to the frame below. V is the set of values the environment
\* draws the delta-based reads from.
ReadAndRank(V) ==
  /\ Top = "sleep"
  /\ UNCHANGED <<graphVars, idsVars, config>>
  /\ \E rd \in [alive -> V \cup {FirstRead, Raised}] :
       /\ \A p \in alive : rd[p] \in ReadChoices(p, V)
       /\ LET pl == Collect(process_iter(alive), rd)
              res == Slice(SortReverse(pl), argn)
          IN  /\ proc_list' = pl
              /\ procs' = res
              /\ readkind' = [p \in Pids |->
                    IF \E i \in DOMAIN res : res[i].pid = p THEN KindOf(p) ELSE "none"]
              /\ baseline' = baseline \cup {p \in alive : ~Ignored(p) /\ rd[p] # Raised}
  /\ primed' = {}
  /\ stack' = Pop(stack)
  /\ UNCHANGED <<alive, pname, argn>>
  /\ UNCHANGED <<winVars, termVars>>

\* -------------------------------------------------------------- environment
\* A process starts: a new Process object, without a baseline.
Spawn(p, nm) ==
  /\ p \notin alive
  /\ alive' = alive \cup {p}
  /\ pname' = [pname EXCEPT ![p] = nm]
  /\ UNCHANGED <<baseline, primed, termGone>>

\* A process exits: its cached Process object is dropped.
Exit(p) ==
  /\ p \in alive
  /\ alive' = alive \ {p}
  /\ pname' = [pname EXCEPT ![p] = NoName]
  /\ baseline' = baseline \ {p}
  /\ primed' = primed \ {p}
  /\ termGone' = (termGone \/ p \in termTarget)

\* ------------------------------------------- a direct get_top_processes(n)
\* Any process table, any baselines left by earlier passes, any n >= 0.
TopInit ==
  /\ alive \in SUBSET Pids
  /\ pname \in [Pids -> Names \cup {NoName}]
  /\ \A p \in Pids : IF p \in alive THEN pname[p] \in NamesOf(p) ELSE pname[p] = NoName
  /\ baseline \in SUBSET alive
  /\ primed = {}
  /\ argn \in 0..MaxN
  /\ stack = <<"call", "prime">>
  /\ proc_list = <<>>
  /\ procs = <<>>
  /\ readkind = NoKinds
  /\ timerActive = FALSE /\ dragPending = FALSE /\ table = <<>> /\ trayAlert = FALSE
  /\ lastPass = "none"
  /\ termTarget = {} /\ termGone = FALSE /\ signalled = {}
  /\ lastWait = "none"
  /\ config = Thresholds
  /\ GraphIdle
  /\ IdsIdle

TopSpawn == Top = "sleep" /\ \E p \in Pids : \E nm \in NamesOf(p) : Spawn(p, nm)
TopExit == Top = "sleep" /\ \E p \in Pids : Exit(p)
TopEnv ==
  /\ TopSpawn \/ TopExit
  /\ UNCHANGED <<graphVars, idsVars, config>>
  /\ UNCHANGED <<stack, passVars, winVars, termTarget, signalled, lastWait>>

TopNext == Prime \/ ReadAndRank(CpuValues) \/ TopEnv

SpecTop == TopInit /\ [][TopNext]_vars

\* ------------------------------------------ ProcessMonitorApp (pid_monitor)
\* Frames of the GUI thread. "loop" is app.exec_(); "confirm", "info" and
\* "error" are the message boxes of terminate_process, each running a nested
\* event loop; "refresh" is refresh_top_processes, with "prime" or "sleep"
\* (get_top_processes) above it while line 208 runs; "tcall" is
\* terminate_process at line 253; "exit" is the process after it died of an
\* exception nothing caught.
EventLoops == {"loop", "confirm", "info", "error"}

\* Whether a frame runs a Qt event loop, which dispatches timer events.
DispatchesAlt(f) == f \in EventLoops \cup {"sleep"}
Dispatches(f) == f \in EventLoops

\* Lines 213-216: the memory lookup of one row. NoSuchProcess and AccessDenied
\* are caught (mem = 0); any other exception leaves refresh_top_processes.
MemOutcomes == {"ok", "nsp", "ad", "err"}
Rss == 12
CaughtByRowAlt(o) == o \in {"nsp", "ad", "err"}
CaughtByRow(o) == o \in {"nsp", "ad"}
Escapes(o) == o # "ok" /\ ~CaughtByRow(o)

\* Lines 224-226: the alert test of one row.
IsAlertAlt(cpu) == cpu >= config.CPU_ALERT_THRESHOLD
IsAlert(cpu) == cpu > config.CPU_ALERT_THRESHOLD

\* Lines 217-232: the row of the table for one sample.
Row(sample, o) ==
  [pid |-> sample.pid, name |-> sample.name, cpu |-> sample.cpu,
   mem |-> IF o = "ok" THEN Rss ELSE 0,
   alert |-> IF IsAlert(sample.cpu) THEN "ALERT!" ELSE ""]

\* Lines 209-232: alert_found after the loop over the rows.
AlertFound(ps) == \E i \in DOMAIN ps : IsAlert(ps[i].cpu)

\* A pass starts: refresh_top_processes calls get_top_processes(TOP_N), reading
\* the global and assigning none; the locals of the new invocation are not
\* assigned yet.
PassFrames == <<"refresh", "prime">>
StartPassAlt ==
  /\ argn' = config.TOP_N
  /\ proc_list' = <<>>
  /\ procs' = <<>>
  /\ readkind' = NoKinds
  /\ config' = [config EXCEPT !.TOP_N = 1]
StartPass ==
  /\ argn' = config.TOP_N
  /\ proc_list' = <<>>
  /\ procs' = <<>>
  /\ readkind' = NoKinds
  /\ UNCHANGED config

\* Lines 209-240, after get_top_processes returned: the rows, then the tray
\* icon. mo[i] is the outcome of the memory lookup of row i. When one escapes,
\* the rows before it are in the table and the tray icon is not updated; the
\* exception goes to the caller: terminate_process catches it (line 254); the
\* constructor does not, and the program ends; a timer slot's exception ends
\* the program (PyQt5 >= 5.5 calls qFatal) or is printed and dropped (older).
FillRows ==
  /\ Top = "refresh"
  /\ UNCHANGED <<graphVars, idsVars, config>>
  /\ \E mo \in [DOMAIN procs -> MemOutcomes] :
       LET bad == {i \in DOMAIN procs : Escapes(mo[i])}
           caller == stack[Len(stack) - 1]
           below == Pop(Pop(stack))
       IN  IF bad = {}
           THEN /\ table' = [i \in DOMAIN procs |-> Row(procs[i], mo[i])]
                /\ trayAlert' = AlertFound(procs)
                /\ lastPass' = "completed"
                /\ stack' = IF caller = "ctor" THEN <<"loop">>
                            ELSE IF caller = "tcall" THEN below
                            ELSE Pop(stack)
                /\ IF caller = "tcall"
                   THEN termTarget' = {} /\ termGone' = FALSE /\ signalled' = {}
                        /\ lastWait' = "none"
                   ELSE UNCHANGED termVars
           ELSE LET k == CHOOSE i \in bad : \A j \in bad : i <= j
                IN  /\ table' = [i \in 1..(k - 1) |-> Row(procs[i], mo[i])]
                    /\ UNCHANGED trayAlert
                    /\ lastPass' = "aborted"
                    /\ \/ /\ caller = "tcall"
                          /\ stack' = below \o <<"error">>
                       \/ /\ caller # "tcall"
                          /\ stack' = <<"exit">>
                       \/ /\ Dispatches(caller)
                          /\ stack' = Pop(stack)
                    /\ UNCHANGED termVars
  /\ UNCHANGED <<osVars, passVars, timerActive, dragPending>>

\* Line 155: the 5 s timer fires while an event loop runs.
TimerTick ==
  /\ timerActive
  /\ UNCHANGED <<graphVars, idsVars>>
  /\ Dispatches(Top)
  /\ stack' = stack \o PassFrames
  /\ StartPass
  /\ UNCHANGED <<osVars, winVars, termVars>>

\* Lines 189-201: moveEvent / resizeEvent.
MoveOrResizeAlt ==
  /\ Top \in EventLoops
  /\ UNCHANGED <<graphVars, idsVars, config>>
  /\ timerActive' = FALSE
  /\ UNCHANGED <<osVars, stack, passVars, dragPending, table, trayAlert, lastPass, termVars>>
MoveOrResize ==
  /\ Top \in EventLoops
  /\ UNCHANGED <<graphVars, idsVars, config>>
  /\ timerActive' = FALSE
  /\ dragPending' = TRUE
  /\ UNCHANGED <<osVars, stack, passVars, table, trayAlert, lastPass, termVars>>

\* Lines 203-205: the single-shot timer fires, _resume_updates.
ResumeUpdates ==
  /\ dragPending
  /\ UNCHANGED <<graphVars, idsVars, config>>
  /\ Top \in EventLoops
  /\ dragPending' = FALSE
  /\ timerActive' = TRUE
  /\ UNCHANGED <<osVars, stack, passVars, table, trayAlert, lastPass, termVars>>

\* Lines 251-252 and 254-255: the message box after proc.wait(timeout=3), which
\* raises TimeoutExpired when the process is still alive.
WaitReportAlt(w) == "info"
WaitReport(w) == IF w = "exited" THEN "info" ELSE "error"

\* Lines 242-248: the button of row i is clicked. psutil.Process(pid) and
\* proc.name() raise for a dead pid, and may raise AccessDenied.
TerminateClick(i) ==
  /\ Top = "loop"
  /\ UNCHANGED <<graphVars, idsVars, config>>
  /\ i \in DOMAIN table
  /\ LET pid == table[i].pid
     IN  /\ termTarget' = {pid}
         /\ \/ /\ pid \in alive
               /\ stack' = stack \o <<"confirm">>
            \/ /\ stack' = stack \o <<"error">>
  /\ termGone' = FALSE
  /\ lastWait' = "none"
  /\ signalled' = {}
  /\ UNCHANGED <<osVars, passVars, winVars>>

\* Line 249, answer No: no signal, then line 253.
AnswerNoAlt ==
  /\ Top = "confirm"
  /\ UNCHANGED <<graphVars, idsVars>>
  /\ stack' = Pop(stack) \o <<"tcall">> \o PassFrames
  /\ StartPass
  /\ signalled' = signalled \cup termTarget
  /\ UNCHANGED <<osVars, winVars, termTarget, termGone, lastWait>>
AnswerNo ==
  /\ Top = "confirm"
  /\ UNCHANGED <<graphVars, idsVars>>
  /\ stack' = Pop(stack) \o <<"tcall">> \o PassFrames
  /\ StartPass
  /\ UNCHANGED <<osVars, winVars, termVars>>

\* Lines 249-252, answer Yes: proc.terminate() raises when the process is gone
\* or access is denied; otherwise the signal is sent and proc.wait(timeout=3)
\* returns when the process exited in time and raises TimeoutExpired when not.
AnswerYes ==
  /\ Top = "confirm"
  /\ UNCHANGED <<graphVars, idsVars, config>>
  /\ \E pid \in termTarget :
       \/ /\ stack' = Pop(stack) \o <<"error">>
          /\ UNCHANGED <<osVars, signalled, lastWait, termGone>>
       \/ /\ pid \in alive /\ ~termGone
          /\ signalled' = signalled \cup {pid}
          /\ \E w \in {"exited", "timeout"} :
               /\ lastWait' = w
               /\ stack' = Pop(stack) \o <<WaitReport(w)>>
               /\ IF w = "exited"
                  THEN /\ alive' = alive \ {pid}
                       /\ pname' = [pname EXCEPT ![pid] = NoName]
                       /\ baseline' = baseline \ {pid}
                       /\ primed' = primed \ {pid}
                       /\ termGone' = TRUE
                  ELSE UNCHANGED <<osVars, termGone>>
  /\ UNCHANGED <<passVars, winVars, termTarget>>

\* The "Terminated" box is closed: line 253.
CloseInfo ==
  /\ Top = "info"
  /\ UNCHANGED <<graphVars, idsVars>>
  /\ stack' = Pop(stack) \o <<"tcall">> \o PassFrames
  /\ StartPass
  /\ UNCHANGED <<osVars, winVars, termVars>>

\* The "Error" box is closed: terminate_process returns.
CloseError ==
  /\ Top = "error"
  /\ UNCHANGED <<graphVars, idsVars, config>>
  /\ stack' = Pop(stack)
  /\ termTarget' = {} /\ termGone' = FALSE /\ signalled' = {} /\ lastWait' = "none"
  /\ UNCHANGED <<osVars, passVars, winVars>>

\* Processes start and exit while time passes for the GUI thread: in an event
\* loop or in the sleep of line 21. (A change between two statements shows only
\* in the outcome of the next query, which is nondeterministic anyway.)
TimePasses == Top \in EventLoops \cup {"sleep"}
GuiSpawn == \E p \in GuiPids : Spawn(p, "app.exe")
GuiExit == \E p \in GuiPids : Exit(p)
GuiEnv ==
  /\ TimePasses
  /\ UNCHANGED <<graphVars, idsVars, config>>
  /\ GuiSpawn \/ GuiExit
  /\ UNCHANGED <<stack, passVars, winVars, termTarget, signalled, lastWait>>

\* Lines 154-158: the constructor started the timer and is in its first
\* refresh_top_processes(); no Process object is cached yet.
Init ==
  /\ alive \in SUBSET GuiPids
  /\ pname = [p \in Pids |-> IF p \in alive THEN "app.exe" ELSE NoName]
  /\ baseline = {}
  /\ primed = {}
  /\ argn = TOP_N
  /\ stack = <<"ctor">> \o PassFrames
  /\ proc_list = <<>>
  /\ procs = <<>>
  /\ readkind = NoKinds
  /\ timerActive = TRUE /\ dragPending = FALSE /\ table = <<>> /\ trayAlert = FALSE
  /\ lastPass = "none"
  /\ termTarget = {} /\ termGone = FALSE /\ signalled = {}
  /\ lastWait = "none"
  /\ config = Thresholds
  /\ GraphIdle
  /\ IdsIdle

Next ==
  \/ Prime
  \/ ReadAndRank(GuiCpuValues)
  \/ FillRows
  \/ TimerTick
  \/ MoveOrResize
  \/ ResumeUpdates
  \/ \E i \in 1..TOP_N : TerminateClick(i)
  \/ AnswerNo
  \/ AnswerYes
  \/ CloseInfo
  \/ CloseError
  \/ GuiEnv

Spec == Init /\ [][Next]_vars

\* The same program over a process table that changes only by its own
\* Terminate requests, with the scheduling Qt and the interpreter give it: a
\* pass that started runs to its end (time.sleep returns, the loops are
\* finite); a timer that is due fires each time control is back in an event
\* loop, however often passes and message boxes interrupt that loop. (Each
\* move or resize restarts the single-shot timer and stops the update timer,
\* so they are due only once such events stop arriving.)
LiveCpuValues == {81}
LiveNext ==
  \/ Prime
  \/ ReadAndRank(LiveCpuValues)
  \/ FillRows
  \/ TimerTick
  \/ MoveOrResize
  \/ ResumeUpdates
  \/ \E i \in 1..TOP_N : TerminateClick(i)
  \/ AnswerNo
  \/ AnswerYes
  \/ CloseInfo
  \/ CloseError

Fairness ==
  /\ WF_vars(Prime)
  /\ WF_vars(ReadAndRank(LiveCpuValues))
  /\ WF_vars(FillRows)
  /\ SF_vars(ResumeUpdates)
  /\ SF_vars(TimerTick)

SpecLive == Init /\ [][LiveNext]_vars /\ Fairness

\* ------------------------------------------------ rank and classify alone
\* Lines 28-32 and 224-226 on a given batch: the samples (cpu, pid, name) of
\* the processes that passed the ignore lists, one per pid, in any enumeration
\* order.
Samples == [cpu : CpuValues, pid : Pids \ IGNORED_PIDS, name : {"app.exe"}]
Batches ==
  { b \in UNION {[1..k -> Samples] : k \in 0..MaxN} :
      \A i, j \in DOMAIN b : i # j => b[i].pid # b[j].pid }

\* Lines 31-32, then the alert flag of lines 209 and 225-226, evaluated on the
\* batch as it stands. It may be evaluated again at any time.
RankAndClassify ==
  /\ Top \in {"rank", "ranked"}
  /\ procs' = Slice(SortReverse(proc_list), argn)
  /\ trayAlert' = AlertFound(procs')
  /\ stack' = <<"ranked">>
  /\ UNCHANGED <<osVars, argn, proc_list, readkind, timerActive, dragPending, table, lastPass>>
  /\ UNCHANGED <<termVars, graphVars, idsVars, config>>

\* Line 23: the same samples are enumerated in another order.
Reenumerate ==
  /\ Top \in {"rank", "ranked"}
  /\ proc_list' \in Batches
  /\ Range(proc_list') = Range(proc_list)
  /\ proc_list' # proc_list
  /\ UNCHANGED <<osVars, stack, argn, procs, readkind, winVars, termVars, graphVars, idsVars, config>>

RankInit ==
  /\ alive = {} /\ pname = [p \in Pids |-> NoName] /\ baseline = {} /\ primed = {}
  /\ stack = <<"rank">>
  /\ argn \in 0..MaxN
  /\ proc_list \in Batches
  /\ procs = <<>>
  /\ readkind = NoKinds
  /\ timerActive = FALSE /\ dragPending = FALSE /\ table = <<>> /\ trayAlert = FALSE
  /\ lastPass = "none"
  /\ termTarget = {} /\ termGone = FALSE /\ signalled = {}
  /\ lastWait = "none"
  /\ config = Thresholds
  /\ GraphIdle
  /\ IdsIdle

RankNext == RankAndClassify \/ Reenumerate

SpecRank == RankInit /\ [][RankNext]_vars

\* ------------------------------------- monitor_process_activity (ids_monitor)
MaxFiles == 1
MaxChildren == 2
ErrTexts == {"boom"}

\* The queries of lines 11-39, in order. "child" is child.name() of one child.
Steps == <<"process", "name", "status", "cpu", "memory", "files", "children", "child">>
StepNo(st) == CHOOSE i \in DOMAIN Steps : Steps[i] = st

\* What the environment answers to one call: the query that raises ("none":
\* none does), the exception ("nsp" NoSuchProcess, "ad" AccessDenied, "err" any
\* other, with its text), the values read, and which child's name() raises.
Observations ==
  { o \in [fail : Range(Steps) \cup {"none"}, err : {"nsp", "ad", "err"}, text : ErrTexts,
           cpu : CpuValues, files : 0..MaxFiles, children : 0..MaxChildren,
           badchild : 1..MaxChildren] :
      /\ o.fail = "child" => o.badchild <= o.children
      /\ o.fail # "child" => o.badchild = 1
      /\ o.fail = "none" => o.err = "nsp" }

\* The answers the monitored process of a MonitorThread gives: it is there and
\* idle, or the first query raises.
ThreadObservations ==
  { o \in Observations :
      /\ o.fail \in {"none", "process"}
      /\ o.cpu = 50 /\ o.files = 0 /\ o.children = 0 }

Line(k, t, x) == [k |-> k, t |-> t, x |-> x]

\* Lines 23-28: the CPU line, highlighted above the threshold of line 23.
CpuLine(cpu) == Line("CPU Usage", IF cpu > 80 THEN "ALERT: High CPU Usage" ELSE "", cpu)

\* process_info as it stands when the query number upto is about to run.
InfoBefore(o, upto) ==
  (IF upto > StepNo("name") THEN <<Line("Process Name", "app.exe", 0)>> ELSE <<>>)
  \o (IF upto > StepNo("status") THEN <<Line("Process Status", "running", 0)>> ELSE <<>>)
  \o (IF upto > StepNo("memory")
        THEN <<CpuLine(o.cpu), Line("Memory Usage", "MB", Rss)>> ELSE <<>>)
  \o (IF upto > StepNo("files")
        THEN [i \in 1..o.files |-> Line("File Accessed", "path", i)] ELSE <<>>)
  \o (IF upto > StepNo("child")
        THEN [i \in 1..o.children |-> Line("Child Process Executed", "child", i)]
        ELSE IF upto = StepNo("child") /\ o.fail = "child"
        THEN [i \in 1..(o.badchild - 1) |-> Line("Child Process Executed", "child", i)]
        ELSE <<>>)

\* Lines 42-47: the handlers, each returning a fresh one-line list.
ErrorLine(o) ==
  CASE o.err = "nsp" -> Line("Error", "Process not found.", 0)
    [] o.err = "ad" -> Line("Error", "Access denied to the process.", 0)
    [] OTHER -> Line("Error", o.text, 0)
HandledAlt(o) == InfoBefore(o, StepNo(o.fail)) \o <<ErrorLine(o)>>
Handled(o) == <<ErrorLine(o)>>

\* Lines 8-47.
monitor_process_activity(o) ==
  IF o.fail = "none" THEN InfoBefore(o, Len(Steps) + 1) ELSE Handled(o)

IsError(info) == Len(info) = 1 /\ info[1].k = "Error"

\* ------------------------------------------------ MonitorThread (ids_monitor)
\* The emissions the GUI thread has not handled yet are capped.
MaxQueue == 2

\* Line 61 finds running True: the thread goes on to lines 62-63.
ThreadLoopTest ==
  /\ thrPc = "head" /\ thrRunning
  /\ Len(queue) < MaxQueue
  /\ thrPc' = "body"
  /\ UNCHANGED <<thrPid, thrRunning, thrLast, queue, idsPc, newPid, text_area, status_label>>
  /\ UNCHANGED <<monObs, monInfo, prevThr, shown>>

\* Lines 62-64: the sample, the emit; then the thread sleeps 5 s. The signal
\* crosses threads, so the emission is queued for the GUI thread.
ThreadSample ==
  /\ thrPc = "body"
  /\ \E o \in ThreadObservations :
       LET info == monitor_process_activity(o)
       IN  /\ queue' = Append(queue, [pid |-> thrPid, info |-> info])
           /\ thrLast' = IF o.fail = "none" THEN "ok" ELSE "failed"
  /\ thrPc' = "sleep"
  /\ UNCHANGED <<thrPid, thrRunning, idsPc, newPid, text_area, status_label, monObs, monInfo>>
  /\ UNCHANGED <<prevThr, shown>>

\* Line 64 returns; line 61 is evaluated next.
ThreadWake ==
  /\ thrPc = "sleep"
  /\ thrPc' = "head"
  /\ UNCHANGED <<thrPid, thrRunning, thrLast, queue, idsPc, newPid, text_area, status_label>>
  /\ UNCHANGED <<monObs, monInfo, prevThr, shown>>

\* Line 61 finds running False: run() returns.
ThreadExit ==
  /\ thrPc = "head" /\ ~thrRunning
  /\ thrPc' = "done"
  /\ UNCHANGED <<thrPid, thrRunning, thrLast, queue, idsPc, newPid, text_area, status_label>>
  /\ UNCHANGED <<monObs, monInfo, prevThr, shown>>

\* Lines 169-173: an event loop of the GUI thread (app.exec_ or the error box)
\* delivers the oldest queued emission. A queued emission stays queued when
\* the MonitorThread object that emitted it is replaced.
update_gui ==
  /\ idsPc \in {"idle", "box"}
  /\ queue # <<>>
  /\ text_area' = Head(queue).info
  /\ shown' = Head(queue).pid
  /\ queue' = Tail(queue)
  /\ UNCHANGED <<thrPc, thrPid, thrRunning, thrLast, idsPc, newPid, status_label>>
  /\ UNCHANGED <<monObs, monInfo, prevThr>>

\* Line 151: int(pid) on the text of pid_input; {} stands for ValueError.
Inputs == {"10", "20", "abc", ""}
ParsePid(t) ==
  CASE t = "10" -> {10}
    [] t = "20" -> {20}
    [] OTHER -> {}

\* Line 158: hasattr(self, 'monitor_thread') and self.monitor_thread.isRunning().
isRunningAlt == FALSE
isRunning == thrPc \in {"head", "body", "sleep"}

\* Lines 162-165: a new MonitorThread(pid) is created, connected and started;
\* the attribute is rebound, and the thread it named before is the previous one.
StartThread(pid) ==
  /\ prevThr' = [pc |-> thrPc, running |-> thrRunning, pid |-> thrPid]
  /\ thrPid' = {pid}
  /\ thrRunning' = TRUE
  /\ thrPc' = "head"
  /\ thrLast' = "none"

\* Lines 148-167 with a pid that int() accepts: the label, the cleared text,
\* then the running thread (if any) is told to stop and waited for.
StartMonitoring(pid) ==
  /\ idsPc = "idle"
  /\ status_label' = "Starting Monitoring..."
  /\ text_area' = <<>>
  /\ shown' = {}
  /\ IF isRunning
     THEN /\ thrRunning' = FALSE
          /\ idsPc' = "wait"
          /\ newPid' = {pid}
          /\ UNCHANGED <<thrPc, thrPid, thrLast, prevThr>>
     ELSE /\ StartThread(pid)
          /\ UNCHANGED <<idsPc, newPid>>
  /\ UNCHANGED <<queue, monObs, monInfo>>

\* Line 160 returns once run() has returned; lines 162-165 follow.
WaitReturns ==
  /\ idsPc = "wait" /\ thrPc = "done"
  /\ \E pid \in newPid : StartThread(pid)
  /\ idsPc' = "idle"
  /\ newPid' = {}
  /\ UNCHANGED <<queue, text_area, shown, status_label, monObs, monInfo>>

\* Lines 151 and 166-167: int(pid) raises ValueError before any other
\* statement of the try block ran; the error box opens.
StartMonitoringInvalidAlt ==
  /\ idsPc = "idle"
  /\ idsPc' = "box"
  /\ status_label' = "Starting Monitoring..."
  /\ text_area' = <<>>
  /\ shown' = {}
  /\ UNCHANGED <<thrPc, thrPid, thrRunning, thrLast, queue, newPid, monObs, monInfo, prevThr>>
StartMonitoringInvalid ==
  /\ idsPc = "idle"
  /\ idsPc' = "box"
  /\ UNCHANGED <<thrPc, thrPid, thrRunning, thrLast, queue, newPid, text_area, status_label>>
  /\ UNCHANGED <<monObs, monInfo, prevThr, shown>>

\* Lines 143-148: the button is clicked with text t in pid_input.
start_monitoring(t) ==
  IF ParsePid(t) = {} THEN StartMonitoringInvalid
  ELSE \E pid \in ParsePid(t) : StartMonitoring(pid)

\* The error box of line 167 is closed: start_monitoring returns.
CloseBox ==
  /\ idsPc = "box"
  /\ idsPc' = "idle"
  /\ UNCHANGED <<thrPc, thrPid, thrRunning, thrLast, queue, newPid, text_area, status_label>>
  /\ UNCHANGED <<monObs, monInfo, prevThr, shown>>

IdsInit ==
  /\ alive = {} /\ pname = [p \in Pids |-> NoName] /\ baseline = {} /\ primed = {}
  /\ stack = <<"loop">> /\ argn = TOP_N /\ proc_list = <<>> /\ procs = <<>>
  /\ readkind = NoKinds
  /\ timerActive = FALSE /\ dragPending = FALSE /\ table = <<>> /\ trayAlert = FALSE
  /\ lastPass = "none"
  /\ termTarget = {} /\ termGone = FALSE /\ signalled = {}
  /\ lastWait = "none"
  /\ config = Thresholds
  /\ GraphIdle
  /\ IdsIdle

IdsOther == <<osVars, stack, passVars, winVars, termVars, graphVars, config>>

IdsNext ==
  \/ ThreadLoopTest /\ UNCHANGED IdsOther
  \/ ThreadSample /\ UNCHANGED IdsOther
  \/ ThreadWake /\ UNCHANGED IdsOther
  \/ ThreadExit /\ UNCHANGED IdsOther
  \/ update_gui /\ UNCHANGED IdsOther
  \/ (\E t \in Inputs : start_monitoring(t)) /\ UNCHANGED IdsOther
  \/ WaitReturns /\ UNCHANGED IdsOther
  \/ CloseBox /\ UNCHANGED IdsOther

SpecIds == IdsInit /\ [][IdsNext]_vars

\* ----------------------------------- a direct monitor_process_activity(pid)
\* Any answers of the queries; the call, then nothing.
MonInit ==
  /\ alive = {} /\ pname = [p \in Pids |-> NoName] /\ baseline = {} /\ primed = {}
  /\ stack = <<"loop">> /\ argn = TOP_N /\ proc_list = <<>> /\ procs = <<>>
  /\ readkind = NoKinds
  /\ timerActive = FALSE /\ dragPending = FALSE /\ table = <<>> /\ trayAlert = FALSE
  /\ lastPass = "none"
  /\ termTarget = {} /\ termGone = FALSE /\ signalled = {}
  /\ lastWait = "none"
  /\ config = Thresholds
  /\ GraphIdle
  /\ thrPc = "none" /\ thrPid = {} /\ thrRunning = FALSE /\ thrLast = "none"
  /\ queue = <<>> /\ idsPc = "idle" /\ newPid = {} /\ text_area = <<>>
  /\ status_label = "Waiting for Process ID..."
  /\ prevThr = NoThread /\ shown = {}
  /\ monObs \in Observations
  /\ monInfo = {}

MonCall ==
  /\ monInfo = {}
  /\ monInfo' = {monitor_process_activity(monObs)}
  /\ UNCHANGED <<thrPc, thrPid, thrRunning, thrLast, queue, idsPc, newPid, text_area,
                 status_label, monObs, prevThr, shown>>
  /\ UNCHANGED IdsOther

SpecMon == MonInit /\ [][MonCall]_vars

\* ------------------------------------------------------ CPUGraph (pid_monitor)
\* Lines 86-88: the length of the rolling window.
HistoryLen == 60
\* The seconds a graph window is followed for.
MaxClock == 62

\* The CPU usage of the graphed process in second t (a fixed pattern, so that
\* a window of HistoryLen samples can be followed).
GraphLoad(t) == IF t % 2 = 0 THEN 50 ELSE 81

\* Lines 86-88: s[-60:] once s is longer than 60.
WindowAlt(s) == IF Len(s) > HistoryLen THEN SubSeq(s, 1, HistoryLen) ELSE s
Window(s) == IF Len(s) > HistoryLen THEN SubSeq(s, Len(s) - HistoryLen + 1, Len(s)) ELSE s

\* Lines 96-98: what refresh does with the timer when psutil raises
\* NoSuchProcess or AccessDenied: self.timer.stop(); self.close() (the window
\* has WA_DeleteOnClose, line 60).
OnSampleError == [timer |-> FALSE, state |-> "closed"]

\* Lines 80-98: the 1 s timer fires. "ok": the sample is appended and the
\* window trimmed. "nsp"/"ad": lines 96-98. "err": any other exception leaves
\* the slot, raised by the sampling (lines 82-83, nothing appended) or by the
\* drawing (lines 89-95, the sample appended and the window trimmed); the
\* program dies (PyQt5 >= 5.5) or goes on (older).
GraphRefresh ==
  /\ gState = "open" /\ gTimer
  /\ gclock < MaxClock
  /\ \E out \in {"ok", "nsp", "ad", "err"} :
       \/ /\ out = "ok"
          /\ gclock' = gclock + 1
          /\ cpu_data' = Window(Append(cpu_data, GraphLoad(gclock + 1)))
          /\ time_data' = Window(Append(time_data, gclock + 1))
          /\ gLast' = "ok"
          /\ UNCHANGED <<gState, gTimer, gDrag>>
       \/ /\ out \in {"nsp", "ad"}
          /\ gTimer' = OnSampleError.timer
          /\ gState' = OnSampleError.state
          /\ gLast' = "failed"
          /\ UNCHANGED <<gDrag, gclock, cpu_data, time_data>>
       \/ /\ out = "err"
          /\ gLast' = "escaped"
          /\ gState' \in {"open", "exit"}
          /\ \/ UNCHANGED <<gclock, cpu_data, time_data>>
             \/ /\ gclock' = gclock + 1
                /\ cpu_data' = Window(Append(cpu_data, GraphLoad(gclock + 1)))
                /\ time_data' = Window(Append(time_data, gclock + 1))
          /\ UNCHANGED <<gTimer, gDrag>>
  /\ UNCHANGED <<osVars, stack, passVars, winVars, termVars, idsVars, config>>

\* Lines 62-74: moveEvent / resizeEvent of the graph window.
GraphMoveOrResize ==
  /\ gState = "open"
  /\ gTimer' = FALSE
  /\ gDrag' = TRUE
  /\ UNCHANGED <<gState, gLast, gclock, cpu_data, time_data>>
  /\ UNCHANGED <<osVars, stack, passVars, winVars, termVars, idsVars, config>>

\* Lines 76-78: the single-shot timer fires, _resume_timer.
GraphResume ==
  /\ gState = "open" /\ gDrag
  /\ gDrag' = FALSE
  /\ gTimer' = TRUE
  /\ UNCHANGED <<gState, gLast, gclock, cpu_data, time_data>>
  /\ UNCHANGED <<osVars, stack, passVars, winVars, termVars, idsVars, config>>

\* Lines 35-60: a CPUGraph was just constructed (show_graph, lines 257-263).
GraphInit ==
  /\ alive = {} /\ pname = [p \in Pids |-> NoName] /\ baseline = {} /\ primed = {}
  /\ stack = <<"loop">> /\ argn = TOP_N /\ proc_list = <<>> /\ procs = <<>>
  /\ readkind = NoKinds
  /\ timerActive = FALSE /\ dragPending = FALSE /\ table = <<>> /\ trayAlert = FALSE
  /\ lastPass = "none"
  /\ termTarget = {} /\ termGone = FALSE /\ signalled = {}
  /\ lastWait = "none"
  /\ config = Thresholds
  /\ gState = "open" /\ gTimer = TRUE /\ gDrag = FALSE /\ gLast = "none"
  /\ gclock = 0 /\ cpu_data = <<>> /\ time_data = <<>>
  /\ IdsIdle

GraphNext == GraphRefresh \/ GraphMoveOrResize \/ GraphResume

SpecGraph == GraphInit /\ [][GraphNext]_vars

\* ================================================================== claims
Returned == stack = <<"call">>
InPass == "refresh" \in Range(stack)
Kept == Range(procs)
Eligible == Range(proc_list)
PidsOf(ps) == {ps[i].pid : i \in DOMAIN ps}

\* C1: one ranking pass get_top_processes(n), n >= 0, returns min(n, number of
\* eligible samples) samples, each one an eligible sample and none twice, and no
\* sample left out has a cpu_percent strictly greater than a sample kept.
C1_TopNLengthAndHighest ==
  Returned =>
    /\ Len(procs) = Min(argn, Len(proc_list))
    /\ Len(procs) <= argn
    /\ Kept \subseteq Eligible
    /\ Cardinality(Kept) = Len(procs)
    /\ \A e \in Eligible \ Kept : \A k \in Kept : ~(e.cpu > k.cpu)

\* C1 witness: a call that returned after truncating a batch of three samples,
\* leaving out a sample with less CPU than one it kept.
C1_Witness ==
  /\ Returned
  /\ Len(proc_list) = 3 /\ argn = 2 /\ Len(procs) = 2
  /\ \E e \in Eligible \ Kept : \E k \in Kept : e.cpu < k.cpu

C2_ExampleInput ==
  << [cpu |-> 95, pid |-> 10, name |-> "app.exe"], [cpu |-> 50, pid |-> 20, name |-> "app.exe"],
     [cpu |-> 81, pid |-> 30, name |-> "app.exe"], [cpu |-> 10, pid |-> 40, name |-> "app.exe"] >>
C2_ExampleOutput ==
  << [cpu |-> 95, pid |-> 10, name |-> "app.exe"], [cpu |-> 81, pid |-> 30, name |-> "app.exe"],
     [cpu |-> 50, pid |-> 20, name |-> "app.exe"] >>

C3_AlertIffAboveThreshold ==
  (~InPass /\ lastPass = "completed") =>
    /\ trayAlert = (\E i \in DOMAIN procs : procs[i].cpu > 80)
    /\ \A i \in DOMAIN table : (table[i].alert = "ALERT!") = (table[i].cpu > 80)
    /\ PidsOf(table) = PidsOf(procs)

\* C3 witness: a completed pass whose result holds a sample at exactly 80 and
\* none above, with the alert off.
C3_Witness ==
  /\ ~InPass /\ lastPass = "completed"
  /\ \E i \in DOMAIN procs : procs[i].cpu = 80
  /\ \A i \in DOMAIN procs : procs[i].cpu <= 80
  /\ ~trayAlert

\* C4: a process whose pid is in IGNORED_PIDS or whose name is in IGNORED_NAMES
\* never appears in the ranked result, whatever its CPU usage and whatever the
\* other processes are.
C4_IgnoredNeverRanked ==
  Returned =>
    /\ \A i \in DOMAIN procs :
         procs[i].pid \notin IGNORED_PIDS /\ procs[i].name \notin IGNORED_NAMES
    /\ \A p \in alive :
         (p \in IGNORED_PIDS \/ pname[p] \in IGNORED_NAMES) => p \notin PidsOf(procs)

\* C4 witness: a returned, non-empty result for a batch that held a process with
\* an ignored pid under another name and a process with an ignored name under
\* another pid, both with a baseline.
C4_Witness ==
  /\ Returned
  /\ procs # <<>>
  /\ 4 \in baseline /\ pname[4] = "app.exe"
  /\ 10 \in baseline /\ pname[10] = "System"

\* C5 as stated: a failure on a single process never aborts a pass: every pass
\* ends completed, with a row for every ranked sample, and the program lives.
C5_PassNeverAborts ==
  /\ lastPass # "aborted"
  /\ "exit" \notin Range(stack)
  /\ (~InPass /\ lastPass = "completed") => Len(table) = Len(procs)

\* C7: "Terminated" is reported only when the process exited within
\* proc.wait(timeout=3); when the wait timed out the request ends in the error
\* box (which stays open until it is closed or the program dies) and never in
\* the "Terminated" box.
C7_SuccessOnlyIfExited ==
  /\ "info" \in Range(stack) => (lastWait = "exited" /\ termGone)
  /\ lastWait = "timeout" =>
       /\ "info" \notin Range(stack)
       /\ "error" \in Range(stack) \/ stack = <<"exit">>

\* C7 witness: a request whose signal was sent and whose wait timed out, the
\* process still alive, the error box open.
C7_Witness ==
  /\ lastWait = "timeout"
  /\ Top = "error"
  /\ \E p \in termTarget : p \in alive /\ p \in signalled

\* C8 as stated: every reported cpu_percent is the second read of a process
\* that was primed earlier in the same pass.
C8_AllReportedPrimed ==
  \A p \in Pids : readkind[p] \in {"none", "second"}

\* C9: at most one invocation of refresh_top_processes is in progress.
C9_NoOverlap ==
  Cardinality({i \in DOMAIN stack : stack[i] = "refresh"}) <= 1

\* C9 witness: the timer fired while the confirmation dialog was open, and that
\* pass is in its sleep.
C9_Witness ==
  stack = <<"loop", "confirm", "refresh", "sleep">>

\* C6: monitor_process_activity returns a list whatever query raises; for a
\* raised NoSuchProcess, AccessDenied or other exception the list is one
\* "Error" line with the text of that outcome, the three texts differ, and the
\* list holds nothing that was collected before the failure.
C6_ErrorOutcomes ==
  \A info \in monInfo :
    /\ monObs.fail # "none" =>
         /\ Len(info) = 1
         /\ info[1].k = "Error"
         /\ monObs.err = "nsp" => info[1].t = "Process not found."
         /\ monObs.err = "ad" => info[1].t = "Access denied to the process."
         /\ monObs.err = "err" =>
              /\ info[1].t = monObs.text
              /\ info[1].t \notin {"Process not found.", "Access denied to the process."}
    /\ monObs.fail = "none" =>
         /\ Len(info) = 4 + monObs.files + monObs.children
         /\ \A i \in DOMAIN info : info[i].k # "Error"

\* C6 witness: the call returned for a process whose second child's name()
\* raised AccessDenied, after name, status, CPU, memory, a file and a child
\* had been collected.
C6_Witness ==
  /\ monInfo # {}
  /\ monObs.fail = "child" /\ monObs.err = "ad" /\ monObs.badchild = 2
  /\ monObs.files = 1

\* C10 as stated, for each driver: after a tick in which sampling failed the
\* driver is still on its schedule (the top-N timer active or about to be
\* resumed and the program alive; the MonitorThread in its loop unless told to
\* stop; the CPUGraph timer active or about to be resumed, its window open).
C10_DriversStayScheduled ==
  /\ lastPass = "aborted" => (stack # <<"exit">> /\ (timerActive \/ dragPending))
  /\ (thrLast = "failed" /\ thrRunning) => thrPc \in {"head", "body", "sleep"}
  /\ gLast \in {"failed", "escaped"} => (gState = "open" /\ (gTimer \/ gDrag))

\* C11: a termination signal is sent only by the step that answers Yes in the
\* confirmation box of a Terminate click, and only to the process of that
\* click; the step that answers No sends none; no other step (a timer tick, a
\* pass, a pause or resume, a box being closed) sends one.
C11_SignalOnlyOnYes ==
  [][ /\ (signalled' \ signalled # {}) =>
           /\ Top = "confirm"
           /\ signalled' \ signalled = termTarget
           /\ lastWait' \in {"exited", "timeout"}
      /\ (Top = "confirm" /\ "tcall" \in Range(stack')) => signalled' = signalled
      /\ InPass => signalled' \subseteq signalled
    ]_vars

\* C11 witness: Yes was answered, the signal went to the process of the click,
\* and a timer tick's pass is running above the "Terminated" box.
C11_Witness ==
  /\ signalled # {} /\ signalled = termTarget
  /\ "info" \in Range(stack)
  /\ Top = "sleep"

\* C12: the ranked top-n result and the alert flag of a batch of samples are
\* the same on every evaluation: whatever order the samples are enumerated in,
\* and however often the step was evaluated before, evaluating it on the batch
\* as it now stands gives the result already held.
C12_RankIsDeterministic ==
  Top = "ranked" =>
    /\ procs = Slice(SortReverse(proc_list), argn)
    /\ trayAlert = AlertFound(Slice(SortReverse(proc_list), argn))
    /\ trayAlert = (\E i \in DOMAIN procs : procs[i].cpu > CPU_ALERT_THRESHOLD)
    /\ \A b \in Batches :
         Range(b) = Range(proc_list) => Slice(SortReverse(b), argn) = procs

\* C12 witness: a batch of three samples was ranked with n = 2 and is now
\* enumerated in another order than it is ranked in; two samples tie on
\* cpu_percent, above the threshold, and the cut falls between them.
C12_Witness ==
  /\ Top = "ranked"
  /\ Len(proc_list) = 3 /\ argn = 2 /\ Len(procs) = 2
  /\ proc_list[1] # procs[1]
  /\ \E e \in Range(proc_list) \ Range(procs) : e.cpu = procs[2].cpu /\ e.cpu = 81
  /\ trayAlert

\* C13: the thresholds configuration keeps the values of lines 9-12 through
\* every operation of a session (a tick and its pass, a termination request,
\* a pause or resume, a window event), and every pass is evaluated against
\* them: get_top_processes is called with n = TOP_N.
C13_ThresholdsUnchanged ==
  /\ config = Thresholds
  /\ config.CPU_ALERT_THRESHOLD = 80 /\ config.TOP_N = 3
  /\ config.IGNORED_PIDS = {0, 4}
  /\ config.IGNORED_NAMES = {"System Idle Process", "System"}
  /\ InPass => argn = config.TOP_N

\* C13 witness: the "Terminated" box of a request that sent its signal is
\* open, after a pass completed with an alert, while updates are paused by a
\* move or resize.
C13_Witness ==
  /\ config = Thresholds
  /\ Top = "info" /\ signalled # {}
  /\ lastPass = "completed" /\ trayAlert
  /\ ~timerActive /\ dragPending

\* C14: after any sequence of CPUGraph.refresh calls cpu_data and time_data
\* have the same length, at most 60, and hold the most recent samples in
\* arrival order: sample number k of the window is the k-th of the last
\* min(60, number of samples taken) samples, so the 61st arrival drops the
\* oldest sample and no other.
C14_RollingWindow ==
  /\ Len(cpu_data) = Len(time_data)
  /\ Len(cpu_data) <= 60
  /\ Len(cpu_data) = Min(gclock, 60)
  /\ \A i \in DOMAIN time_data :
       /\ time_data[i] = gclock - Len(time_data) + i
       /\ cpu_data[i] = GraphLoad(time_data[i])

\* C14 witness: the 61st sample has arrived; the window holds samples 2 to 61.
C14_Witness ==
  /\ gclock = 61
  /\ Len(cpu_data) = 60
  /\ time_data[1] = 2 /\ time_data[60] = 61
  /\ gLast = "ok"

\* C15 as stated: when the monitored process answers every query and the
\* name() of one of its children raises NoSuchProcess or AccessDenied, the
\* result still reports the monitored process's name, status, CPU and memory
\* and is not an error outcome.
C15_ChildFailureIsolated ==
  \A info \in monInfo :
    (monObs.fail = "child" /\ monObs.err \in {"nsp", "ad"}) =>
      /\ ~IsError(info)
      /\ Len(info) >= 4
      /\ info[1].k = "Process Name" /\ info[2].k = "Process Status"
      /\ info[3].k = "CPU Usage" /\ info[4].k = "Memory Usage"

\* C16: at most one MonitorThread is in its run loop at any time: when line
\* 163 replaces a thread, that thread had been told to stop (running False)
\* and had left its run loop, for any sequence of start_monitoring calls.
InLoop(pc) == pc \in {"head", "body", "sleep"}
C16_AtMostOneThread ==
  /\ ~(InLoop(thrPc) /\ InLoop(prevThr.pc))
  /\ prevThr.pc \in {"none", "done"}
  /\ prevThr.pc = "done" => ~prevThr.running
  /\ idsPc = "wait" => ~thrRunning

\* C16 witness: a monitor of pid 10 was replaced by a monitor of pid 20, which
\* is in its loop; the replaced thread had finished.
C16_Witness ==
  /\ prevThr = [pc |-> "done", running |-> FALSE, pid |-> {10}]
  /\ thrPid = {20} /\ thrPc = "sleep" /\ thrRunning
  /\ idsPc = "idle"

\* C17 as stated: the display only ever shows a sample of the pid of the
\* current monitor: after start_monitoring(p2) replaced a monitor of p1, no
\* sample of p1 is shown.
C17_NoStaleSample ==
  thrPid # {} => shown \subseteq thrPid

\* C18: a start_monitoring call with a text that int() rejects changes nothing
\* of the monitoring state: the step that opens the error box leaves the thread
\* (running or not), the thread it replaced, the queued emissions, the
\* displayed text and the status label as they were, and starts no thread.
C18_InvalidInputChangesNothing ==
  [][ (idsPc = "idle" /\ idsPc' = "box") =>
        /\ UNCHANGED <<thrPc, thrPid, thrRunning, prevThr, newPid>>
        /\ UNCHANGED <<text_area, shown, status_label, queue>>
    ]_vars

\* C18 witness: the error box is open while the monitor started earlier is in
\* its loop, not told to stop, with its sample and the label still displayed.
C18_Witness ==
  /\ idsPc = "box"
  /\ thrPc = "sleep" /\ thrRunning /\ thrPid = {10}
  /\ shown = {10} /\ text_area # <<>>
  /\ status_label = "Starting Monitoring..."
  /\ queue = <<>>

\* C19: pausing never stops the top-N monitoring for good. Whenever the 5 s
\* update timer is inactive the single-shot resume timer is pending; and in
\* every run where move/resize events stop arriving, an inactive update timer
\* becomes active again and a timer tick starts a pass afterwards.
TickPass ==
  /\ Len(stack) >= 3
  /\ Top = "prime" /\ stack[Len(stack) - 1] = "refresh"
  /\ Dispatches(stack[Len(stack) - 2])
C19_PauseIsTemporary ==
  /\ [](~timerActive => dragPending)
  /\ (<>[][~MoveOrResize]_vars) =>
       /\ (~timerActive ~> timerActive)
       /\ (~timerActive ~> (timerActive /\ TickPass))

\* C19 witness: updates are paused by a move or resize that arrived while the
\* confirmation box was open, after a completed pass.
C19_Witness ==
  /\ ~timerActive /\ dragPending
  /\ Top = "confirm"
  /\ lastPass = "completed" /\ table # <<>>

====
